---- MODULE Spec2Model ----
(***************************************************************************)
(* Model of imap_email_archiver.py: one archiver process that is run,      *)
(* stopped and re-run against a mailbox and an SQLite store.               *)
(***************************************************************************)
EXTENDS Integers, Sequences, FiniteSets, TLC

\* ------------------------------------------------------------------ bounds
MaxMailbox == 2
MaxBatch == 2
MaxInitRows == 1
MaxRows == 2
MaxFilters == 2
MaxLimit == 2
MaxOffset == 1
MaxPieces == 5

\* ------------------------------------------------------- program constants
RefreshEvery == 200
DefaultBatchSize == 500

\* ------------------------------------------------------------ Python values
\* A Python value that can sit in archive_cache or in all_ids: a str
\* (a Message-ID header value, abstracted to a number), bytes (an IMAP
\* sequence number as returned by SEARCH) or None.  Values of different
\* types are never equal.  msg.get returns an email.header.Header instead of
\* a str when the raw header holds a byte outside ASCII.
PyStr(n) == [t |-> "str", v |-> n]
PyBytes(n) == [t |-> "bytes", v |-> n]
PyNone == [t |-> "None", v |-> 0]
PyHeader == [t |-> "Header", v |-> 0]

MessageIds == {PyNone, PyStr(1), PyStr(2)}
SubjectKinds == {"plain", "missing", "badcharset"}

MsgA == [message_id |-> PyStr(1), subject |-> "plain", sender |-> "str"]
MsgB == [message_id |-> PyStr(2), subject |-> "plain", sender |-> "str"]

\* A message whose Message-ID header holds a raw 8-bit byte, and one whose
\* From header does.
MsgHeaderId == [message_id |-> PyHeader, subject |-> "plain", sender |-> "str"]
MsgHeaderFrom == [message_id |-> PyStr(1), subject |-> "plain", sender |-> "Header"]

\* A raw message on the server: its Message-ID header (None when the header
\* is missing), the shape of its Subject header and the type msg.get gives
\* for its From header (To and Date behave like From).
Messages ==
    [message_id : MessageIds, subject : SubjectKinds, sender : {"str"}]
        \cup {MsgHeaderId, MsgHeaderFrom}

Min(a, b) == IF a <= b THEN a ELSE b
Range(s) == {s[k] : k \in 1..Len(s)}

SeqsUpTo(S, n) == UNION {[1..k -> S] : k \in 0..n}

SmallMailboxes == SeqsUpTo(Messages, MaxMailbox)

LongLen == RefreshEvery + 2
LongMailboxes ==
    {[k \in 1..LongLen |-> IF k <= n THEN MsgA ELSE MsgB] : n \in {0, RefreshEvery}}

\* ------------------------------------------------------------------- store
\* The emails table: rows in insertion order and the AUTOINCREMENT counter
\* (sqlite_sequence).  message_id is UNIQUE; NULLs are not subject to it.
UniqueIds(rows) ==
    \A j, k \in 1..Len(rows) :
        (j # k /\ rows[j].message_id # PyNone)
            => rows[j].message_id # rows[k].message_id

InitRowSeqs ==
    {[k \in 1..Len(ms) |-> [id |-> k, message_id |-> ms[k], subject |-> "plain"]] :
        ms \in SeqsUpTo(MessageIds, MaxInitRows)}

InitStores ==
    {[rows |-> rs, seq |-> Len(rs)] : rs \in {r \in InitRowSeqs : UniqueIds(r)}}

VARIABLES
    mailbox,        \* the messages on the server, by sequence number
    batch_size,     \* BATCH_SIZE
    store,          \* committed content of the emails table
    tx,             \* the table as the open connection sees it
    archive_cache,  \* message ids loaded at run start
    pending_ids,    \* references selected at run start
    pos,            \* position of the loop in pending_ids[:BATCH_SIZE]
    processed,      \* the loop's counter
    pc,             \* position of the process
    msg,            \* the message fetched in this iteration
    served,         \* fetches served by the current IMAP connection
    abortCause,     \* the exception that ended the run
    connErrors,     \* consecutive ConnectionErrors seen by the run
    fetched,        \* references fetched by this run
    persisted,      \* references whose row this run committed
    committedRows,  \* rows whose insert and commit completed, in any run
    lastInsert,     \* outcome of the last INSERT OR IGNORE of this run
    prev,           \* how the previous run ended and what it had selected
    mail,           \* the IMAP session of the run
    conn,           \* the SQLite connection of the run
    skipped,        \* references this run skipped after decode
    attempted,      \* references whose insert step this run committed
    paced,          \* references after which this run slept
    refreshLog,     \* fetches served by each connection a refresh closed
    procs,          \* two concurrent archiver processes
    qtable,         \* the emails table a query runs on
    qargs,          \* the arguments of query_emails
    qresult,        \* the rows query_emails returned
    dbody,          \* a message body given to extract_domains
    dresult         \* what extract_domains returned

\* State of the other parts of the program, untouched by a single run.
others == <<procs, qtable, qargs, qresult, dbody, dresult>>

vars == <<mailbox, batch_size, store, tx, archive_cache, pending_ids, pos,
          processed, pc, msg, served, abortCause, connErrors, fetched,
          persisted, committedRows, lastInsert, prev, mail, conn, skipped,
          attempted, paced, refreshLog, others>>

NoMsg == [message_id |-> PyNone, subject |-> "nomsg", sender |-> "str"]

NoPrev == [stop |-> "none", pending |-> <<>>, persisted |-> {}, rows |-> 0]

InitRun ==
    /\ tx = store
    /\ archive_cache = {}
    /\ pending_ids = <<>>
    /\ pos = 1
    /\ processed = 0
    /\ pc = "idle"
    /\ msg = NoMsg
    /\ served = 0
    /\ abortCause = "none"
    /\ connErrors = 0
    /\ fetched = {}
    /\ persisted = {}
    /\ committedRows = {}
    /\ lastInsert = "none"
    /\ prev = NoPrev
    /\ mail = "none"
    /\ conn = "none"
    /\ skipped = {}
    /\ attempted = {}
    /\ paced = {}
    /\ refreshLog = <<>>

\* No concurrent processes, no query and no extraction under way.
OthersIdle ==
    /\ procs = <<>>
    /\ qtable = <<>>
    /\ qargs = <<>>
    /\ qresult = <<>>
    /\ dbody = <<>>
    /\ dresult = <<>>

\* Small mailboxes and batch sizes, every small store.
Init ==
    /\ mailbox \in SmallMailboxes
    /\ batch_size \in 1..MaxBatch
    /\ store \in InitStores
    /\ InitRun
    /\ OthersIdle

\* Mailboxes longer than the refresh threshold, the default batch size.
InitLong ==
    /\ mailbox \in LongMailboxes
    /\ batch_size = DefaultBatchSize
    /\ store \in InitStores
    /\ InitRun
    /\ OthersIdle

\* ---------------------------------------------------------------- helpers
\* SELECT message_id FROM emails, collected into a set.
ArchiveCache(db) == {db.rows[k].message_id : k \in 1..Len(db.rows)}

\* mail.search(None, "ALL"): the sequence numbers, as bytes.
AllIds(mb) == [k \in 1..Len(mb) |-> PyBytes(k)]

\* [mid for mid in all_ids if mid not in archive_cache]
PendingIds(all_ids, cache) == SelectSeq(all_ids, LAMBDA mid : mid \notin cache)

\* The slice left out: the loop runs over all of pending_ids.
BatchAll(pending, n) == pending

\* pending_ids[:BATCH_SIZE]; a negative stop counts from the end of the list.
Batch(pending, n) ==
    IF n >= 0 THEN SubSeq(pending, 1, Min(n, Len(pending)))
    ELSE SubSeq(pending, 1, Len(pending) + n)

\* processed > 0 and processed % 200 == 0
NeedsRefresh(n) == n > 0 /\ n % RefreshEvery = 0

\* The post-decode check left out.
AlreadyArchivedNever(message_id, cache) == FALSE

\* message_id in archive_cache raises TypeError for a Header, which is not
\* hashable.
AlreadyArchivedRaises(message_id) == message_id = PyHeader

\* message_id in archive_cache
AlreadyArchived(message_id, cache) == message_id \in cache

\* decode_header(msg.get("Subject")) and the bytes.decode that follows:
\* TypeError when the header is missing, LookupError when the encoded-word
\* names an unknown charset.
SubjectRaises(m) == m.subject \in {"missing", "badcharset"}

\* cursor.execute cannot bind a Header: ProgrammingError.
BindRaises(m) == m.sender = "Header"

\* A plain INSERT into a table without the UNIQUE constraint.
InsertAlways(db, m) ==
    [rows |-> Append(db.rows, [id |-> db.seq + 1, message_id |-> m.message_id,
                                subject |-> m.subject]),
     seq |-> db.seq + 1]

\* INSERT OR REPLACE: an existing row with the same message_id is deleted and
\* the new row is added.
InsertOrReplace(db, m) ==
    LET newid == db.seq + 1
        row == [id |-> newid, message_id |-> m.message_id, subject |-> m.subject]
        kept == SelectSeq(db.rows, LAMBDA r :
                    m.message_id = PyNone \/ r.message_id # m.message_id)
    IN  [rows |-> Append(kept, row), seq |-> newid]

\* INSERT OR IGNORE INTO emails ...: the AUTOINCREMENT counter advances for
\* every attempt, the row is added unless a row with the same non-NULL
\* message_id exists.
InsertOrIgnore(db, m) ==
    LET newid == db.seq + 1
        dup == m.message_id # PyNone /\ m.message_id \in ArchiveCache(db)
        row == [id |-> newid, message_id |-> m.message_id, subject |-> m.subject]
    IN  [rows |-> IF dup THEN db.rows ELSE Append(db.rows, row),
         seq |-> newid]

\* The commit left out: the transaction stays open.
CommitStoreNever(committed, working) == committed

\* conn.commit(): the open transaction becomes the committed content.
CommitStore(committed, working) == working

Running == {"head", "fetch", "decode", "insert", "commit", "sleep"}
Stopped == {"idle", "done", "aborted", "killed"}

\* ---------------------------------------------------------------- actions
\* Lines 36-81: open the store, load archive_cache, connect, list, diff.
Start ==
    /\ pc \in Stopped
    /\ tx' = store
    /\ archive_cache' = ArchiveCache(store)
    /\ pending_ids' = PendingIds(AllIds(mailbox), ArchiveCache(store))
    /\ pos' = 1
    /\ processed' = 0
    /\ msg' = NoMsg
    /\ served' = 0
    /\ abortCause' = "none"
    /\ connErrors' = 0
    /\ fetched' = {}
    /\ persisted' = {}
    /\ lastInsert' = "none"
    /\ prev' = [stop |-> pc, pending |-> pending_ids, persisted |-> persisted,
                rows |-> Len(store.rows)]
    /\ pc' = "head"
    /\ mail' = "open"
    /\ conn' = "open"
    /\ skipped' = {}
    /\ attempted' = {}
    /\ paced' = {}
    /\ refreshLog' = <<>>
    /\ UNCHANGED <<mailbox, batch_size, store, committedRows,
                   others>>

\* Line 68 / 73: connect_imap() or mail.search raises; nothing catches it.
StartFail ==
    /\ pc \in Stopped
    /\ tx' = store
    /\ archive_cache' = ArchiveCache(store)
    /\ pending_ids' = <<>>
    /\ pos' = 1
    /\ processed' = 0
    /\ msg' = NoMsg
    /\ served' = 0
    /\ abortCause' = "ConnectionError"
    /\ connErrors' = 1
    /\ fetched' = {}
    /\ persisted' = {}
    /\ lastInsert' = "none"
    /\ prev' = [stop |-> pc, pending |-> pending_ids, persisted |-> persisted,
                rows |-> Len(store.rows)]
    /\ pc' = "aborted"
    /\ mail' = "dropped"
    /\ conn' = "dropped"
    /\ skipped' = {}
    /\ attempted' = {}
    /\ paced' = {}
    /\ refreshLog' = <<>>
    /\ UNCHANGED <<mailbox, batch_size, store, committedRows,
                   others>>

\* Lines 95-100: take the next reference of the slice; refresh the
\* connection when the counter is a positive multiple of 200.
LoopHead ==
    /\ pc = "head"
    /\ pos <= Len(Batch(pending_ids, batch_size))
    /\ served' = IF NeedsRefresh(processed) THEN 0 ELSE served
    /\ pc' = "fetch"
    /\ refreshLog' = IF NeedsRefresh(processed)
                      THEN Append(refreshLog, served) ELSE refreshLog
    /\ UNCHANGED <<mailbox, batch_size, store, tx, archive_cache, pending_ids,
                   pos, processed, msg, abortCause, connErrors, fetched,
                   persisted, committedRows, lastInsert, prev,
                   mail, conn, skipped, attempted, paced, others>>

\* Line 100: connect_imap() raises during the refresh.
RefreshFail ==
    /\ pc = "head"
    /\ pos <= Len(Batch(pending_ids, batch_size))
    /\ NeedsRefresh(processed)
    /\ pc' = "aborted"
    /\ abortCause' = "ConnectionError"
    /\ connErrors' = connErrors + 1
    /\ tx' = store
    /\ mail' = "dropped"
    /\ conn' = "dropped"
    /\ refreshLog' = Append(refreshLog, served)
    /\ UNCHANGED <<mailbox, batch_size, store, archive_cache, pending_ids,
                   pos, processed, msg, served, fetched, persisted,
                   committedRows, lastInsert, prev,
                   skipped, attempted, paced, others>>

\* Lines 148-151: the slice is exhausted.
Finish ==
    /\ pc = "head"
    /\ pos > Len(Batch(pending_ids, batch_size))
    /\ pc' = "done"
    /\ mail' = "logout"
    /\ conn' = "closed"
    /\ UNCHANGED <<mailbox, batch_size, store, tx, archive_cache, pending_ids,
                   pos, processed, msg, served, abortCause, connErrors,
                   fetched, persisted, committedRows, lastInsert, prev,
                   skipped, attempted, paced, refreshLog, others>>

\* Line 148: the connection is lost, mail.logout() raises; conn.close() is
\* not reached.
FinishFail ==
    /\ pc = "head"
    /\ pos > Len(Batch(pending_ids, batch_size))
    /\ pc' = "aborted"
    /\ abortCause' = "ConnectionError"
    /\ connErrors' = connErrors + 1
    /\ mail' = "dropped"
    /\ conn' = "dropped"
    /\ UNCHANGED <<mailbox, batch_size, store, tx, archive_cache, pending_ids,
                   pos, processed, msg, served, fetched, persisted,
                   committedRows, lastInsert, prev,
                   skipped, attempted, paced, refreshLog, others>>

\* Line 102: mail.fetch returns the raw message.
FetchOk ==
    /\ pc = "fetch"
    /\ LET ref == Batch(pending_ids, batch_size)[pos]
       IN  /\ msg' = mailbox[ref.v]
           /\ fetched' = fetched \cup {ref.v}
    /\ served' = served + 1
    /\ connErrors' = 0
    /\ pc' = "decode"
    /\ UNCHANGED <<mailbox, batch_size, store, tx, archive_cache, pending_ids,
                   pos, processed, abortCause, persisted, committedRows,
                   lastInsert, prev,
                   mail, conn, skipped, attempted, paced, refreshLog, others>>

\* Lines 102-104: the reference is no longer valid, the server answers
\* without message data and msg_data[0][1] raises TypeError.
FetchNotFound ==
    /\ pc = "fetch"
    /\ served' = served + 1
    /\ pc' = "aborted"
    /\ abortCause' = "NotFound"
    /\ tx' = store
    /\ mail' = "dropped"
    /\ conn' = "dropped"
    /\ UNCHANGED <<mailbox, batch_size, store, archive_cache, pending_ids,
                   pos, processed, msg, connErrors, fetched, persisted,
                   committedRows, lastInsert, prev,
                   skipped, attempted, paced, refreshLog, others>>

\* Line 102: the connection is lost, mail.fetch raises; nothing catches it.
FetchConnectionError ==
    /\ pc = "fetch"
    /\ pc' = "aborted"
    /\ abortCause' = "ConnectionError"
    /\ connErrors' = connErrors + 1
    /\ tx' = store
    /\ mail' = "dropped"
    /\ conn' = "dropped"
    /\ UNCHANGED <<mailbox, batch_size, store, archive_cache, pending_ids,
                   pos, processed, msg, served, fetched, persisted,
                   committedRows, lastInsert, prev,
                   skipped, attempted, paced, refreshLog, others>>

\* Line 108: the membership test raises for a Header message id.
DecodeIdFail ==
    /\ pc = "decode"
    /\ AlreadyArchivedRaises(msg.message_id)
    /\ pc' = "aborted"
    /\ abortCause' = "unhashable"
    /\ tx' = store
    /\ mail' = "dropped"
    /\ conn' = "dropped"
    /\ UNCHANGED <<mailbox, batch_size, store, archive_cache, pending_ids,
                   pos, processed, msg, served, connErrors, fetched,
                   persisted, committedRows, lastInsert, prev,
                   skipped, attempted, paced, refreshLog, others>>

\* Lines 107-109: the message id is already in archive_cache: continue.
DecodeSkip ==
    /\ pc = "decode"
    /\ ~AlreadyArchivedRaises(msg.message_id)
    /\ AlreadyArchived(msg.message_id, archive_cache)
    /\ pos' = pos + 1
    /\ msg' = NoMsg
    /\ lastInsert' = "none"
    /\ pc' = "head"
    /\ skipped' = skipped \cup {Batch(pending_ids, batch_size)[pos].v}
    /\ UNCHANGED <<mailbox, batch_size, store, tx, archive_cache, pending_ids,
                   processed, served, abortCause, connErrors, fetched,
                   persisted, committedRows, prev,
                   mail, conn, attempted, paced, refreshLog, others>>

\* Lines 112-115: decoding the subject raises.
DecodeFail ==
    /\ pc = "decode"
    /\ ~AlreadyArchivedRaises(msg.message_id)
    /\ ~AlreadyArchived(msg.message_id, archive_cache)
    /\ SubjectRaises(msg)
    /\ pc' = "aborted"
    /\ abortCause' = "decode"
    /\ tx' = store
    /\ mail' = "dropped"
    /\ conn' = "dropped"
    /\ UNCHANGED <<mailbox, batch_size, store, archive_cache, pending_ids,
                   pos, processed, msg, served, connErrors, fetched,
                   persisted, committedRows, lastInsert, prev,
                   skipped, attempted, paced, refreshLog, others>>

\* Lines 111-135: subject, headers, body and domains are decoded.
DecodeOk ==
    /\ pc = "decode"
    /\ ~AlreadyArchivedRaises(msg.message_id)
    /\ ~AlreadyArchived(msg.message_id, archive_cache)
    /\ ~SubjectRaises(msg)
    /\ pc' = "insert"
    /\ UNCHANGED <<mailbox, batch_size, store, tx, archive_cache, pending_ids,
                   pos, processed, msg, served, abortCause, connErrors,
                   fetched, persisted, committedRows, lastInsert, prev,
                   mail, conn, skipped, attempted, paced, refreshLog, others>>

\* Lines 137-141: cursor.execute(INSERT OR IGNORE ...).
Insert ==
    /\ pc = "insert"
    /\ ~BindRaises(msg)
    /\ tx' = InsertOrIgnore(tx, msg)
    /\ lastInsert' = IF Len(InsertOrIgnore(tx, msg).rows) > Len(tx.rows)
                     THEN "inserted" ELSE "ignored"
    /\ pc' = "commit"
    /\ UNCHANGED <<mailbox, batch_size, store, archive_cache, pending_ids,
                   pos, processed, msg, served, abortCause, connErrors,
                   fetched, persisted, committedRows, prev,
                   mail, conn, skipped, attempted, paced, refreshLog, others>>

\* Line 137: cursor.execute raises while binding the parameters; no row is
\* added.
InsertFail ==
    /\ pc = "insert"
    /\ BindRaises(msg)
    /\ pc' = "aborted"
    /\ abortCause' = "bind"
    /\ tx' = store
    /\ mail' = "dropped"
    /\ conn' = "dropped"
    /\ UNCHANGED <<mailbox, batch_size, store, archive_cache, pending_ids,
                   pos, processed, msg, served, connErrors, fetched,
                   persisted, committedRows, lastInsert, prev,
                   skipped, attempted, paced, refreshLog, others>>

\* Lines 143-144: conn.commit(); processed += 1.
Commit ==
    /\ pc = "commit"
    /\ store' = CommitStore(store, tx)
    /\ processed' = processed + 1
    /\ committedRows' = committedRows \cup (Range(tx.rows) \ Range(store.rows))
    /\ persisted' = IF lastInsert = "inserted"
                    THEN persisted \cup {Batch(pending_ids, batch_size)[pos].v}
                    ELSE persisted
    /\ pc' = "sleep"
    /\ attempted' = attempted \cup {Batch(pending_ids, batch_size)[pos].v}
    /\ UNCHANGED <<mailbox, batch_size, tx, archive_cache, pending_ids, pos,
                   msg, served, abortCause, connErrors, fetched, lastInsert,
                   prev,
                   mail, conn, skipped, paced, refreshLog, others>>

\* Line 146: time.sleep(THROTTLE_PER_EMAIL), then the next iteration.
Sleep ==
    /\ pc = "sleep"
    /\ pos' = pos + 1
    /\ msg' = NoMsg
    /\ lastInsert' = "none"
    /\ pc' = "head"
    /\ paced' = paced \cup {Batch(pending_ids, batch_size)[pos].v}
    /\ UNCHANGED <<mailbox, batch_size, store, tx, archive_cache, pending_ids,
                   processed, served, abortCause, connErrors, fetched,
                   persisted, committedRows, prev,
                   mail, conn, skipped, attempted, refreshLog, others>>

\* The process is terminated from outside; an open transaction is lost.
Kill ==
    /\ pc \in Running
    /\ pc' = "killed"
    /\ tx' = store
    /\ mail' = "dropped"
    /\ conn' = "dropped"
    /\ UNCHANGED <<mailbox, batch_size, store, archive_cache, pending_ids,
                   pos, processed, msg, served, abortCause, connErrors,
                   fetched, persisted, committedRows, lastInsert, prev,
                   skipped, attempted, paced, refreshLog, others>>

\* Runs over the small mailboxes: the counter stays below the refresh
\* threshold, so the refresh itself cannot fail here.
Next ==
    \/ Start
    \/ StartFail
    \/ LoopHead
    \/ Finish
    \/ FinishFail
    \/ FetchOk
    \/ FetchNotFound
    \/ FetchConnectionError
    \/ DecodeIdFail
    \/ DecodeSkip
    \/ DecodeFail
    \/ DecodeOk
    \/ Insert
    \/ InsertFail
    \/ Commit
    \/ Sleep
    \/ Kill

Spec == Init /\ [][Next]_vars

\* Runs over a long mailbox that are not interrupted and whose fetches
\* succeed; the reconnect of a refresh and the final logout may fail.
NextLong ==
    \/ Start
    \/ LoopHead
    \/ RefreshFail
    \/ Finish
    \/ FinishFail
    \/ FetchOk
    \/ DecodeSkip
    \/ DecodeOk
    \/ Insert
    \/ Commit
    \/ Sleep

SpecLong == InitLong /\ [][NextLong]_vars

\* ------------------------------------------------- two concurrent archivers
\* Two archiver processes started on the same db_file and the same mailbox.
\* Each runs the loop of lines 94-146 once; the store is shared, everything
\* else is the process's own.
Procs == {1, 2}

MsgNoId == [message_id |-> PyNone, subject |-> "plain", sender |-> "str"]
MsgNoSubject == [message_id |-> PyStr(1), subject |-> "missing", sender |-> "str"]

PairMailboxes ==
    SeqsUpTo({MsgA, MsgB, MsgNoId, MsgNoSubject, MsgHeaderId, MsgHeaderFrom},
             MaxMailbox)

IdleProc ==
    [pc |-> "idle", archive_cache |-> {}, pending_ids |-> <<>>, pos |-> 1,
     msg |-> NoMsg, tx |-> [rows |-> <<>>, seq |-> 0], lastInsert |-> "none",
     abortCause |-> "none", inserted |-> {}]

\* Every variable of the single run except the ones the processes share.
soloVars == <<tx, archive_cache, pending_ids, pos, processed, pc, msg, served,
              abortCause, connErrors, fetched, persisted, committedRows,
              lastInsert, prev, mail, conn, skipped, attempted, paced,
              refreshLog>>

InitPair ==
    /\ mailbox \in PairMailboxes
    /\ batch_size \in 1..MaxBatch
    /\ store \in InitStores
    /\ InitRun
    /\ procs = [p \in Procs |-> IdleProc]
    /\ qtable = <<>>
    /\ qargs = <<>>
    /\ qresult = <<>>
    /\ dbody = <<>>
    /\ dresult = <<>>

PairFrame == UNCHANGED <<mailbox, batch_size, soloVars, qtable, qargs, qresult,
                         dbody, dresult>>

\* SQLite lets one connection write at a time: a process that has executed
\* its INSERT holds the write lock until it commits or ends.
WriteLockFree(ps, p) == \A q \in Procs \ {p} : ps[q].pc # "commit"

\* A process that has executed the SELECT of line 54 and has not yet fetched
\* its rows (line 55) holds a read lock on the database; a SELECT on an empty
\* table is finished by the execute and holds none.
ReadLockFree(ps, p) ==
    \A q \in Procs \ {p} : ~(ps[q].pc = "select" /\ ps[q].archive_cache # {})

\* What the SELECT of line 54 yields: read now by a process that is idle,
\* read at the execute by a process that stands between lines 54 and 55.
Selected(ps, p, db) ==
    IF ps[p].pc = "idle" THEN ArchiveCache(db) ELSE ps[p].archive_cache

\* Lines 36-54: open the store and execute the SELECT.
PSelect(p) ==
    /\ procs[p].pc = "idle"
    /\ procs' = [procs EXCEPT ![p] =
            [@ EXCEPT !.pc = "select", !.archive_cache = ArchiveCache(store)]]
    /\ UNCHANGED store
    /\ PairFrame

\* Lines 36-81, or lines 55-81 for a process that stands after line 54.
PStart(p) ==
    /\ procs[p].pc \in {"idle", "select"}
    /\ procs' = [procs EXCEPT ![p] =
            [@ EXCEPT !.pc = "head",
                      !.archive_cache = Selected(procs, p, store),
                      !.pending_ids = PendingIds(AllIds(mailbox),
                                                 Selected(procs, p, store))]]
    /\ UNCHANGED store
    /\ PairFrame

\* Line 68 / 73: connect_imap() or mail.search raises.
PStartFail(p) ==
    /\ procs[p].pc \in {"idle", "select"}
    /\ procs' = [procs EXCEPT ![p] =
            [@ EXCEPT !.pc = "aborted", !.abortCause = "ConnectionError",
                      !.archive_cache = Selected(procs, p, store)]]
    /\ UNCHANGED store
    /\ PairFrame

\* Lines 95-100 (the counter stays below the refresh threshold here).
PLoopHead(p) ==
    /\ procs[p].pc = "head"
    /\ procs[p].pos <= Len(Batch(procs[p].pending_ids, batch_size))
    /\ procs' = [procs EXCEPT ![p].pc = "fetch"]
    /\ UNCHANGED store
    /\ PairFrame

\* Lines 148-151.
PFinish(p) ==
    /\ procs[p].pc = "head"
    /\ procs[p].pos > Len(Batch(procs[p].pending_ids, batch_size))
    /\ procs' = [procs EXCEPT ![p].pc = "done"]
    /\ UNCHANGED store
    /\ PairFrame

\* Line 148: mail.logout() raises.
PFinishFail(p) ==
    /\ procs[p].pc = "head"
    /\ procs[p].pos > Len(Batch(procs[p].pending_ids, batch_size))
    /\ procs' = [procs EXCEPT ![p] =
            [@ EXCEPT !.pc = "aborted", !.abortCause = "ConnectionError"]]
    /\ UNCHANGED store
    /\ PairFrame

\* Lines 102-104: the server answers without message data.
PFetchNotFound(p) ==
    /\ procs[p].pc = "fetch"
    /\ procs' = [procs EXCEPT ![p] =
            [@ EXCEPT !.pc = "aborted", !.abortCause = "NotFound"]]
    /\ UNCHANGED store
    /\ PairFrame

\* Line 102: the connection is lost, mail.fetch raises.
PFetchConnectionError(p) ==
    /\ procs[p].pc = "fetch"
    /\ procs' = [procs EXCEPT ![p] =
            [@ EXCEPT !.pc = "aborted", !.abortCause = "ConnectionError"]]
    /\ UNCHANGED store
    /\ PairFrame

\* Lines 102-105.
PFetch(p) ==
    /\ procs[p].pc = "fetch"
    /\ procs' = [procs EXCEPT ![p] =
            [@ EXCEPT !.pc = "decode",
                      !.msg = mailbox[Batch(procs[p].pending_ids, batch_size)[procs[p].pos].v]]]
    /\ UNCHANGED store
    /\ PairFrame

\* Line 108: the membership test raises for a Header message id.
PDecodeIdFail(p) ==
    /\ procs[p].pc = "decode"
    /\ AlreadyArchivedRaises(procs[p].msg.message_id)
    /\ procs' = [procs EXCEPT ![p] =
            [@ EXCEPT !.pc = "aborted", !.abortCause = "unhashable"]]
    /\ UNCHANGED store
    /\ PairFrame

\* Lines 107-109.
PDecodeSkip(p) ==
    /\ procs[p].pc = "decode"
    /\ ~AlreadyArchivedRaises(procs[p].msg.message_id)
    /\ AlreadyArchived(procs[p].msg.message_id, procs[p].archive_cache)
    /\ procs' = [procs EXCEPT ![p] =
            [@ EXCEPT !.pc = "head", !.pos = @ + 1, !.msg = NoMsg,
                      !.lastInsert = "none"]]
    /\ UNCHANGED store
    /\ PairFrame

\* Lines 112-115: decoding the subject raises.
PDecodeFail(p) ==
    /\ procs[p].pc = "decode"
    /\ ~AlreadyArchivedRaises(procs[p].msg.message_id)
    /\ ~AlreadyArchived(procs[p].msg.message_id, procs[p].archive_cache)
    /\ SubjectRaises(procs[p].msg)
    /\ procs' = [procs EXCEPT ![p] =
            [@ EXCEPT !.pc = "aborted", !.abortCause = "decode"]]
    /\ UNCHANGED store
    /\ PairFrame

\* Lines 111-135.
PDecodeOk(p) ==
    /\ procs[p].pc = "decode"
    /\ ~AlreadyArchivedRaises(procs[p].msg.message_id)
    /\ ~AlreadyArchived(procs[p].msg.message_id, procs[p].archive_cache)
    /\ ~SubjectRaises(procs[p].msg)
    /\ procs' = [procs EXCEPT ![p].pc = "insert"]
    /\ UNCHANGED store
    /\ PairFrame

\* Lines 137-141: the INSERT takes the write lock and runs against the
\* committed table.
PInsert(p) ==
    /\ procs[p].pc = "insert"
    /\ ~BindRaises(procs[p].msg)
    /\ WriteLockFree(procs, p)
    /\ procs' = [procs EXCEPT ![p] =
            [@ EXCEPT !.pc = "commit",
                      !.tx = InsertOrIgnore(store, procs[p].msg),
                      !.lastInsert =
                          IF Len(InsertOrIgnore(store, procs[p].msg).rows) > Len(store.rows)
                          THEN "inserted" ELSE "ignored"]]
    /\ UNCHANGED store
    /\ PairFrame

\* Lines 137-141: the other process keeps the write lock longer than the
\* connection's busy timeout; execute raises "database is locked".
PInsertBusy(p) ==
    /\ procs[p].pc = "insert"
    /\ ~BindRaises(procs[p].msg)
    /\ ~WriteLockFree(procs, p)
    /\ procs' = [procs EXCEPT ![p] =
            [@ EXCEPT !.pc = "aborted", !.abortCause = "locked"]]
    /\ UNCHANGED store
    /\ PairFrame

\* Line 137: cursor.execute raises while binding the parameters, before it
\* asks for the write lock.
PInsertFail(p) ==
    /\ procs[p].pc = "insert"
    /\ BindRaises(procs[p].msg)
    /\ procs' = [procs EXCEPT ![p] =
            [@ EXCEPT !.pc = "aborted", !.abortCause = "bind"]]
    /\ UNCHANGED store
    /\ PairFrame

\* Lines 143-144: the commit waits until no other process holds a read lock.
PCommit(p) ==
    /\ procs[p].pc = "commit"
    /\ ReadLockFree(procs, p)
    /\ store' = CommitStore(store, procs[p].tx)
    /\ procs' = [procs EXCEPT ![p] =
            [@ EXCEPT !.pc = "sleep",
                      !.inserted = IF procs[p].lastInsert = "inserted"
                                   THEN @ \cup {procs[p].msg.message_id} ELSE @]]
    /\ PairFrame

\* Line 143: the other process keeps its read lock longer than the
\* connection's busy timeout; conn.commit() raises "database is locked", the
\* transaction is lost with the process and the store stays as it was.
PCommitBusy(p) ==
    /\ procs[p].pc = "commit"
    /\ ~ReadLockFree(procs, p)
    /\ procs' = [procs EXCEPT ![p] =
            [@ EXCEPT !.pc = "aborted", !.abortCause = "locked"]]
    /\ UNCHANGED store
    /\ PairFrame

\* Line 146.
PSleep(p) ==
    /\ procs[p].pc = "sleep"
    /\ procs' = [procs EXCEPT ![p] =
            [@ EXCEPT !.pc = "head", !.pos = @ + 1, !.msg = NoMsg,
                      !.lastInsert = "none"]]
    /\ UNCHANGED store
    /\ PairFrame

\* The process is terminated from outside; its open transaction is lost and
\* its lock released.
PKill(p) ==
    /\ procs[p].pc \in Running \cup {"select"}
    /\ procs' = [procs EXCEPT ![p].pc = "killed"]
    /\ UNCHANGED store
    /\ PairFrame

NextPair ==
    \/ \E p \in Procs : PSelect(p)
    \/ \E p \in Procs : PStart(p)
    \/ \E p \in Procs : PStartFail(p)
    \/ \E p \in Procs : PLoopHead(p)
    \/ \E p \in Procs : PFinish(p)
    \/ \E p \in Procs : PFinishFail(p)
    \/ \E p \in Procs : PFetch(p)
    \/ \E p \in Procs : PFetchNotFound(p)
    \/ \E p \in Procs : PFetchConnectionError(p)
    \/ \E p \in Procs : PDecodeIdFail(p)
    \/ \E p \in Procs : PDecodeSkip(p)
    \/ \E p \in Procs : PDecodeFail(p)
    \/ \E p \in Procs : PDecodeOk(p)
    \/ \E p \in Procs : PInsert(p)
    \/ \E p \in Procs : PInsertBusy(p)
    \/ \E p \in Procs : PInsertFail(p)
    \/ \E p \in Procs : PCommit(p)
    \/ \E p \in Procs : PCommitBusy(p)
    \/ \E p \in Procs : PSleep(p)
    \/ \E p \in Procs : PKill(p)

SpecPair == InitPair /\ [][NextPair]_vars

\* ------------------------------------------------------------ query_emails
\* Text is a sequence of characters; NULL (None) is a value of its own.
Null == <<"NULL">>

\* The characters of the model: tab, line feed, carriage return, printable
\* ASCII (without the grave accent, 96, which a string of this language
\* cannot hold) and the Latin-1 characters 160 to 255 (the first of them the
\* no-break space, the 14th the soft hyphen), in code point order.
Chars ==
    <<"\t", "\n", "\r", " ", "!", "\"", "#", "$", "%", "&", "'", "(", ")",
      "*", "+", ",", "-", ".", "/", "0", "1", "2", "3", "4", "5", "6", "7",
      "8", "9", ":", ";", "<", "=", ">", "?", "@", "A", "B", "C", "D", "E",
      "F", "G", "H", "I", "J", "K", "L", "M", "N", "O", "P", "Q", "R", "S",
      "T", "U", "V", "W", "X", "Y", "Z", "[", "\\", "]", "^", "_", "a",
      "b", "c", "d", "e", "f", "g", "h", "i", "j", "k", "l", "m", "n", "o",
      "p", "q", "r", "s", "t", "u", "v", "w", "x", "y", "z", "{", "|", "}",
      "~", " ", "¡", "¢", "£", "¤", "¥", "¦", "§", "¨", "©", "ª", "«", "¬",
      "­", "®", "¯", "°", "±", "²", "³", "´", "µ", "¶", "·", "¸", "¹", "º",
      "»", "¼", "½", "¾", "¿", "À", "Á", "Â", "Ã", "Ä", "Å", "Æ", "Ç", "È",
      "É", "Ê", "Ë", "Ì", "Í", "Î", "Ï", "Ð", "Ñ", "Ò", "Ó", "Ô", "Õ", "Ö",
      "×", "Ø", "Ù", "Ú", "Û", "Ü", "Ý", "Þ", "ß", "à", "á", "â", "ã", "ä",
      "å", "æ", "ç", "è", "é", "ê", "ë", "ì", "í", "î", "ï", "ð", "ñ", "ò",
      "ó", "ô", "õ", "ö", "÷", "ø", "ù", "ú", "û", "ü", "ý", "þ", "ÿ">>

\* The code point of the k-th character of Chars.
CodePointAt(k) ==
    IF k = 1 THEN 9 ELSE IF k = 2 THEN 10 ELSE IF k = 3 THEN 13
    ELSE IF k <= 67 THEN k + 28 ELSE IF k <= 97 THEN k + 29 ELSE k + 62

CodeTable ==
    [c \in Range(Chars) |-> CodePointAt(CHOOSE k \in 1..Len(Chars) : Chars[k] = c)]

\* The code point of a character: SQLite compares text byte by byte in its
\* UTF-8 encoding, which is the order of the code points.
Code(c) == CodeTable[c]

LowerTable ==
    [c \in Range(Chars) |->
        IF CodeTable[c] \in 65..90 THEN Chars[CodeTable[c] + 32 - 29] ELSE c]

\* LIKE folds the ASCII letters A-Z and no other character.
Lower(c) == LowerTable[c]

\* text LIKE pat: % matches any run of characters, _ any one character,
\* letters match whatever their case.
RECURSIVE Like(_, _)
Like(pat, text) ==
    IF pat = <<>> THEN text = <<>>
    ELSE IF Head(pat) = "%"
         THEN Like(Tail(pat), text) \/ (text # <<>> /\ Like(pat, Tail(text)))
    ELSE IF text = <<>> THEN FALSE
    ELSE IF Head(pat) = "_" THEN Like(Tail(pat), Tail(text))
    ELSE Lower(Head(pat)) = Lower(Head(text)) /\ Like(Tail(pat), Tail(text))

\* column LIKE '%' || value || '%'; NULL LIKE anything is not true.
LikeContains(col, value) ==
    col # Null /\ Like(<<"%">> \o value \o <<"%">>, col)

\* Byte-wise comparison of two texts (BINARY collation).
RECURSIVE TextLess(_, _)
TextLess(x, y) ==
    IF y = <<>> THEN FALSE
    ELSE IF x = <<>> THEN TRUE
    ELSE IF Code(Head(x)) # Code(Head(y)) THEN Code(Head(x)) < Code(Head(y))
    ELSE TextLess(Tail(x), Tail(y))

TextLeq(x, y) == x = y \/ TextLess(x, y)

\* `if sender:` and the like: None and the empty string add no condition.
Supplied(value) == value # Null /\ value # <<>>

\* The WHERE clause built by lines 100-129.
RowMatches(row, args) ==
    /\ Supplied(args.sender) => LikeContains(row.sender, args.sender)
    /\ Supplied(args.recipient) => LikeContains(row.recipient, args.recipient)
    /\ Supplied(args.subject) => LikeContains(row.subject, args.subject)
    /\ Supplied(args.date_from) =>
            (row.date # Null /\ TextLeq(args.date_from, row.date))
    /\ Supplied(args.date_to) =>
            (row.date # Null /\ TextLeq(row.date, args.date_to))
    /\ Supplied(args.domain) => LikeContains(row.domains_found, args.domain)
    /\ Supplied(args.search_body) => LikeContains(row.body, args.search_body)

\* ORDER BY date DESC: NULL sorts below every text.
DateBelow(x, y) == x # y /\ (x = Null \/ (y # Null /\ TextLess(x, y)))

\* Insert a row into a list sorted by date descending, after the rows of
\* the same date (rows of equal date keep their table order).
RECURSIVE InsertByDate(_, _)
InsertByDate(sorted, row) ==
    IF sorted = <<>> THEN <<row>>
    ELSE IF DateBelow(Head(sorted).date, row.date) THEN <<row>> \o sorted
    ELSE <<Head(sorted)>> \o InsertByDate(Tail(sorted), row)

RECURSIVE OrderByDateDesc(_)
OrderByDateDesc(rows) ==
    IF rows = <<>> THEN <<>>
    ELSE InsertByDate(OrderByDateDesc(SubSeq(rows, 1, Len(rows) - 1)), rows[Len(rows)])

\* LIMIT ? OFFSET ?: a negative LIMIT is no limit, a negative OFFSET is 0.
LimitOffset(rows, limit, offset) ==
    LET first == IF offset < 0 THEN 0 ELSE offset
        last == IF limit < 0 THEN Len(rows) ELSE Min(Len(rows), first + limit)
    IN  SubSeq(rows, first + 1, last)

\* query_emails(conn, ...): lines 98-135.
QueryEmails(table, args) ==
    LimitOffset(OrderByDateDesc(SelectSeq(table, LAMBDA row : RowMatches(row, args))),
                args.limit, args.offset)

SenderValues == {Null, <<"a", "b">>, <<"A">>}
DateValues == {Null, <<"1">>, <<"2">>}
OtherValues == {<<"a">>, <<"b">>}
TextFilters == {<<"a">>, <<"_">>}
DateFilters == {<<"1">>, <<"2">>}

QueryRows ==
    {[sender |-> sv, date |-> dv, recipient |-> ov, subject |-> ov, body |-> ov,
      domains_found |-> ov] :
        sv \in SenderValues, dv \in DateValues, ov \in OtherValues}

\* The database file connect_db opens when the archiver has never run on
\* it: it holds no emails table.
NoTable == [exists |-> FALSE, rows |-> <<>>]

\* Tables of up to MaxRows rows, with ids in table order.
QueryTables ==
    {[k \in 1..Len(t) |->
        [id |-> k, sender |-> t[k].sender, recipient |-> t[k].recipient,
         subject |-> t[k].subject, date |-> t[k].date, body |-> t[k].body,
         domains_found |-> t[k].domains_found]] : t \in SeqsUpTo(QueryRows, MaxRows)}

FilterNames ==
    {"sender", "recipient", "subject", "date_from", "date_to", "domain",
     "search_body"}

FilterSets == [sender : TextFilters \cup {Null}, recipient : TextFilters \cup {Null},
               subject : TextFilters \cup {Null}, date_from : DateFilters \cup {Null},
               date_to : DateFilters \cup {Null}, domain : TextFilters \cup {Null},
               search_body : TextFilters \cup {Null}]

\* Argument lists with at most MaxFilters filters supplied; --limit and
\* --offset take any int.
QueryArgs ==
    {[sender |-> f.sender, recipient |-> f.recipient, subject |-> f.subject,
      date_from |-> f.date_from, date_to |-> f.date_to, domain |-> f.domain,
      search_body |-> f.search_body, limit |-> l, offset |-> o] :
        f \in {g \in FilterSets :
                 Cardinality({n \in FilterNames : g[n] # Null}) <= MaxFilters},
        l \in (-1)..MaxLimit, o \in (-1)..MaxOffset}

\* No archiver run under way.
ArchiverIdle ==
    /\ mailbox = <<>>
    /\ batch_size = DefaultBatchSize
    /\ store = [rows |-> <<>>, seq |-> 0]
    /\ InitRun
    /\ procs = <<>>

InitQuery ==
    /\ ArchiverIdle
    /\ qtable \in {[exists |-> TRUE, rows |-> t] : t \in QueryTables} \cup {NoTable}
    /\ qargs \in QueryArgs
    /\ qresult = [done |-> FALSE, raised |-> FALSE, rows |-> <<>>]
    /\ dbody = <<>>
    /\ dresult = <<>>

\* One call of query_emails.
Query ==
    /\ ~qresult.done
    /\ qtable.exists
    /\ qresult' = [done |-> TRUE, raised |-> FALSE,
                   rows |-> QueryEmails(qtable.rows, qargs)]
    /\ UNCHANGED <<mailbox, batch_size, store, soloVars, procs, qtable, qargs,
                   dbody, dresult>>

\* Line 134: cursor.execute raises OperationalError, no such table.
QueryFail ==
    /\ ~qresult.done
    /\ ~qtable.exists
    /\ qresult' = [done |-> TRUE, raised |-> TRUE, rows |-> <<>>]
    /\ UNCHANGED <<mailbox, batch_size, store, soloVars, procs, qtable, qargs,
                   dbody, dresult>>

NextQuery ==
    \/ Query
    \/ QueryFail

SpecQuery == InitQuery /\ [][NextQuery]_vars

\* --------------------------------------------------------- extract_domains
\* The code points \w matches in a str pattern: the underscore and every
\* character str.isalnum() holds for (digits, letters, and among the Latin-1
\* characters also the superscript digits, the fractions and the ordinal
\* and micro signs).
WordCodes ==
    (48..57) \cup (65..90) \cup {95} \cup (97..122)
        \cup {170} \cup (178..179) \cup {181} \cup (185..186) \cup (188..190)
        \cup (192..214) \cup (216..246) \cup (248..255)

WordChars == {c \in Range(Chars) : Code(c) \in WordCodes}

\* [\w\.-]
IsHostChar(c) == c \in WordChars \/ c = "." \/ c = "-"

\* lit occurs in text at position k.
LitAt(text, k, lit) ==
    /\ k + Len(lit) - 1 <= Len(text)
    /\ \A j \in 1..Len(lit) : text[k + j - 1] = lit[j]

\* https?:// at position k: the position after it, 0 when it does not match.
SchemeEnd(text, k) ==
    IF LitAt(text, k, <<"h", "t", "t", "p", "s", ":", "/", "/">>) THEN k + 8
    ELSE IF LitAt(text, k, <<"h", "t", "t", "p", ":", "/", "/">>) THEN k + 7
    ELSE 0

\* [\w\.-]+ from position k, greedy: the position after the last host
\* character.
RECURSIVE HostEnd(_, _)
HostEnd(text, k) ==
    IF k <= Len(text) /\ IsHostChar(text[k]) THEN HostEnd(text, k + 1) ELSE k

\* re.findall(r'https?://[\w\.-]+', text) from position k: the matches, left
\* to right, not overlapping.
RECURSIVE FindAllFrom(_, _)
FindAllFrom(text, k) ==
    IF k > Len(text) THEN <<>>
    ELSE LET e == SchemeEnd(text, k)
         IN  IF e # 0 /\ HostEnd(text, e) > e
             THEN <<SubSeq(text, k, HostEnd(text, e) - 1)>>
                      \o FindAllFrom(text, HostEnd(text, e))
             ELSE FindAllFrom(text, k + 1)

FindAll(text) == FindAllFrom(text, 1)

\* Position of the first occurrence of sep in text, 0 when there is none.
FirstAt(text, sep) ==
    IF \E k \in 1..Len(text) : LitAt(text, k, sep)
    THEN CHOOSE k \in 1..Len(text) :
            LitAt(text, k, sep) /\ \A j \in 1..(k - 1) : ~LitAt(text, j, sep)
    ELSE 0

\* text.split(sep)[0]
SplitFirst(text, sep) ==
    IF FirstAt(text, sep) = 0 THEN text ELSE SubSeq(text, 1, FirstAt(text, sep) - 1)

\* text.split(sep)[1], for a text that holds sep.
SplitSecond(text, sep) ==
    SplitFirst(SubSeq(text, FirstAt(text, sep) + Len(sep), Len(text)), sep)

\* u.split("//")[1].split("/")[0]
DomainOf(u) == SplitFirst(SplitSecond(u, <<"/", "/">>), <<"/">>)

\* The orders in which the elements of a set can be iterated.
Orders(S) ==
    {o \in [1..Cardinality(S) -> S] : \A j, k \in DOMAIN o : j # k => o[j] # o[k]}

\* The join of the list itself, duplicates kept.
JoinOrdersOfList(domains) == {domains}

\* set(domains), in the order the join iterates it (the order of a set of
\* str is not fixed).
JoinOrders(domains) == Orders(Range(domains))

\* ",".join(parts)
RECURSIVE Join(_)
Join(parts) ==
    IF parts = <<>> THEN <<>>
    ELSE IF Len(parts) = 1 THEN parts[1]
    ELSE parts[1] \o <<",">> \o Join(Tail(parts))

\* extract_domains(text): every value the call can return.
ExtractDomains(text) ==
    LET urls == FindAll(text)
        domains == [k \in 1..Len(urls) |-> DomainOf(urls[k])]
    IN  IF domains # <<>> THEN {Join(o) : o \in JoinOrders(domains)} ELSE {Null}

Pieces ==
    {<<"h", "t", "t", "p", ":", "/", "/">>, <<"h", "t", "t", "p", "s", ":", "/", "/">>,
     <<"a">>, <<"É">>, <<".">>, <<"/">>, <<" ">>, <<",">>}

RECURSIVE Concat(_)
Concat(parts) == IF parts = <<>> THEN <<>> ELSE Head(parts) \o Concat(Tail(parts))

ExampleBody ==
    <<"s", "e", "e", " ", "h", "t", "t", "p", ":", "/", "/", "e", "x", "a", "m",
    "p", "l", "e", ".", "c", "o", "m", "/", "x", " ", "a", "n", "d", " ",
    "h", "t", "t", "p", "s", ":", "/", "/", "s", "u", "b", ".", "e", "x",
    "a", "m", "p", "l", "e", ".", "o", "r", "g">>

RepeatBody ==
    <<"h", "t", "t", "p", ":", "/", "/", "a", ".", "b", ",", "h", "t", "t", "p",
    "s", ":", "/", "/", "c", "/", " ", "h", "t", "t", "p", ":", "/", "/",
    "a", ".", "b">>

\* Bodies put together from up to MaxPieces pieces, and two longer ones.
Bodies ==
    {Concat(ps) : ps \in SeqsUpTo(Pieces, MaxPieces)} \cup {ExampleBody, RepeatBody}

InitDomains ==
    /\ ArchiverIdle
    /\ qtable = <<>>
    /\ qargs = <<>>
    /\ qresult = <<>>
    /\ dbody \in Bodies
    /\ dresult = [done |-> FALSE, value |-> Null]

\* Line 135: domains = extract_domains(body), stored as domains_found.
Extract ==
    /\ ~dresult.done
    /\ \E v \in ExtractDomains(dbody) : dresult' = [done |-> TRUE, value |-> v]
    /\ UNCHANGED <<mailbox, batch_size, store, soloVars, procs, qtable, qargs,
                   qresult, dbody>>

NextDomains == Extract

SpecDomains == InitDomains /\ [][NextDomains]_vars

TypeOK ==
    /\ pc \in Running \cup Stopped
    /\ processed \in Nat
    /\ pos \in Nat

\* ------------------------------------------------------------------ claims
\* Message ids carried by the messages of the slice the run has selected.
SelectedIds ==
    {mailbox[Batch(pending_ids, batch_size)[k].v].message_id :
        k \in 1..Len(Batch(pending_ids, batch_size))}

RemoteIds == {mailbox[k].message_id : k \in 1..Len(mailbox)} \ {PyNone}

\* C1: a run that follows a completed run selects at least one message that
\* is not yet in the store whenever some remote message that carries a
\* message id is still missing from the store.
C1_NextRunSelectsUnarchived ==
    (pc = "head" /\ pos = 1 /\ prev.stop = "done"
        /\ RemoteIds \ ArchiveCache(store) # {})
    => SelectedIds \ ArchiveCache(store) # {}

\* C2: the store never holds two rows with the same non-NULL message_id, and
\* an INSERT OR IGNORE that meets an existing message_id leaves the rows
\* unchanged without aborting the run.
C2_UniqueMessageId ==
    /\ UniqueIds(store.rows)
    /\ UniqueIds(tx.rows)
    /\ lastInsert = "ignored" => (pc # "aborted" /\ tx.rows = store.rows)

\* C2 witness: a duplicate insert was ignored and the run goes on.
C2_Witness ==
    /\ lastInsert = "ignored"
    /\ pc = "sleep"
    /\ msg.message_id \in ArchiveCache(store)

\* C3: a run that follows a completed run against the same mailbox adds no
\* row to the store.
C3_SecondRunAddsNothing ==
    prev.stop = "done" => Len(store.rows) = prev.rows

\* C3 witness: the first run added rows, the second run fetched messages and
\* completed.
C3_Witness ==
    /\ prev.stop = "done"
    /\ prev.persisted # {}
    /\ pc = "done"
    /\ fetched # {}

\* References the previous run had pending whose message carries a message id
\* that was not in the store when this run started.
PrevRemaining ==
    {r \in {prev.pending[k].v : k \in 1..Len(prev.pending)} :
        /\ mailbox[r].message_id # PyNone
        /\ mailbox[r].message_id \notin archive_cache}

\* C4: when the run that follows an interrupted run completes, it has
\* processed every message the interrupted run had pending and had not
\* persisted (as far as the batch size allows them in one run), and it has
\* inserted none of the references the interrupted run had persisted.
C4_ResumeProcessesRemaining ==
    (pc = "done" /\ prev.stop = "killed"
        /\ Cardinality(PrevRemaining) <= batch_size)
    => (PrevRemaining \subseteq fetched /\ persisted \cap prev.persisted = {})

\* C5: no insert is left uncommitted when the loop goes on to the next
\* message or stops, every row whose insert and commit completed is in the
\* store, and at most one row is in flight.
C5_CommittedBeforeNextFetch ==
    /\ pc \in {"head", "fetch", "decode", "insert"} \cup Stopped => tx = store
    /\ committedRows \subseteq Range(store.rows)
    /\ Len(tx.rows) <= Len(store.rows) + 1

\* C5 witness: a run that had committed an insert was stopped.
C5_Witness ==
    /\ pc \in {"killed", "aborted"}
    /\ persisted # {}
    /\ committedRows # {}

\* C6: a run that has fetched part of its batch is aborted by a
\* ConnectionError only after two consecutive failures.
C6_AbortOnlyAfterSecondFailure ==
    (pc = "aborted" /\ abortCause = "ConnectionError" /\ fetched # {})
    => connErrors >= 2

\* C7: no connection serves more fetches than the refresh threshold.
C7_ConnectionServesAtMostThreshold == served <= RefreshEvery

\* C8: a fetch that returns no message data does not abort the run.
C8_NotFoundIsSkipped == abortCause # "NotFound"

\* C9: no row committed by the archiver has a NULL message_id.
C9_NoIdNeverStored == \A r \in committedRows : r.message_id # PyNone

\* C10: decoding a fetched message never aborts the run.
C10_DecodeNeverAborts == abortCause # "decode"

\* References of the slice the run has selected.
SelectedRefs ==
    {Batch(pending_ids, batch_size)[k].v :
        k \in 1..Len(Batch(pending_ids, batch_size))}

\* C11: a run fetches at most batch_size references, and they are the first
\* ones of the pending list in server order; a run that has finished has
\* logged out of the mailbox, closed the store and processed every selected
\* reference, each either skipped or taken through the insert step.
C11_BoundedBatchThenClosed ==
    /\ Cardinality(fetched) <= batch_size
    /\ \A j, k \in 1..Len(pending_ids) : j < k => pending_ids[j].v < pending_ids[k].v
    /\ fetched = {pending_ids[k].v : k \in 1..Cardinality(fetched)}
    /\ pc = "done" =>
        /\ mail = "logout"
        /\ conn = "closed"
        /\ fetched = SelectedRefs
        /\ skipped \cup attempted = fetched
        /\ skipped \cap attempted = {}

\* C11 witness: a finished run over a mailbox longer than the batch that has
\* fetched a full batch and archived from it.
C11_Witness ==
    /\ pc = "done"
    /\ Len(pending_ids) > batch_size
    /\ Cardinality(fetched) = batch_size
    /\ attempted # {}

IsPrefix(s, t) == Len(s) <= Len(t) /\ \A k \in 1..Len(s) : s[k] = t[k]

\* C12: in every step the committed rows of the previous state are, unchanged
\* and in the same order, the first rows of the next state; ids increase along
\* the rows and every new row gets an id above every id assigned before.
C12_RecordsImmutable ==
    [][/\ IsPrefix(store.rows, store'.rows)
       /\ \A j, k \in 1..Len(store'.rows) :
            j < k => store'.rows[j].id < store'.rows[k].id
       /\ \A k \in 1..Len(store'.rows) :
            /\ store'.rows[k].id <= store'.seq
            /\ k > Len(store.rows) => store'.rows[k].id > store.seq]_vars

\* C12 witness: a run has added a row to a store that held one, and an
\* ignored insert has used up an id.
C12_Witness ==
    /\ committedRows # {}
    /\ Len(store.rows) >= 2
    /\ store.seq > store.rows[Len(store.rows)].id

\* C15: while a run is under way, pending_ids holds exactly the references of
\* the remote messages whose message id was not in the store at run start.
C15_PendingIsRemoteMinusStore ==
    pc \in Running =>
        {pending_ids[k].v : k \in 1..Len(pending_ids)}
            = {r \in 1..Len(mailbox) :
                  mailbox[r].message_id = PyNone
                      \/ mailbox[r].message_id \notin archive_cache}

\* C16: no insert is attempted for a message id that this run has already
\* inserted.
C16_InsertedIdsAreSkipped ==
    pc = "insert" =>
        (msg.message_id = PyNone
            \/ msg.message_id \notin {mailbox[r].message_id : r \in persisted})

\* C17: the count a finished run reports is the number of rows it added.
C17_ReportedCountIsRowsAdded ==
    pc = "done" => processed = Len(store.rows) - prev.rows

\* C18: when the loop is about to fetch, every reference fetched before in
\* this run has been followed by the pacing sleep.
C18_PacedBetweenFetches ==
    pc \in {"head", "fetch"} => fetched \subseteq paced

\* C19: every connection closed by a refresh had served at least the refresh
\* threshold of fetches.
C19_RefreshOnlyAfterThreshold ==
    \A k \in 1..Len(refreshLog) : refreshLog[k] >= RefreshEvery

RECURSIVE StartsWith(_, _)
StartsWith(text, value) ==
    IF value = <<>> THEN TRUE
    ELSE IF text = <<>> THEN FALSE
    ELSE Lower(Head(text)) = Lower(Head(value)) /\ StartsWith(Tail(text), Tail(value))

HasSubstring(col, value) ==
    col # Null /\ \E k \in 1..(Len(col) + 1) : StartsWith(SubSeq(col, k, Len(col)), value)

\* The filters of the claim: substring matches and lexical date bounds.
SatisfiesFilters(row, args) ==
    /\ args.sender # Null => HasSubstring(row.sender, args.sender)
    /\ args.recipient # Null => HasSubstring(row.recipient, args.recipient)
    /\ args.subject # Null => HasSubstring(row.subject, args.subject)
    /\ args.domain # Null => HasSubstring(row.domains_found, args.domain)
    /\ args.search_body # Null => HasSubstring(row.body, args.search_body)
    /\ args.date_from # Null => (row.date # Null /\ TextLeq(args.date_from, row.date))
    /\ args.date_to # Null => (row.date # Null /\ TextLeq(row.date, args.date_to))

\* C14: the rows query_emails returns are rows of the table that satisfy
\* every supplied filter, ordered by date descending, at most `limit` of
\* them (none for a limit below 0), and, for a limit and an offset that are
\* not negative, as many as the satisfying rows from `offset` on allow.
C14_QueryReturnsMatchingRows ==
    (qresult.done /\ ~qresult.raised) =>
        LET res == qresult.rows
            nsat == Cardinality({k \in 1..Len(qtable.rows) :
                                    SatisfiesFilters(qtable.rows[k], qargs)})
            rest == IF nsat > qargs.offset THEN nsat - qargs.offset ELSE 0
        IN  /\ \A k \in 1..Len(res) :
                  res[k] \in Range(qtable.rows) /\ SatisfiesFilters(res[k], qargs)
            /\ \A j, k \in 1..Len(res) : j < k => ~DateBelow(res[j].date, res[k].date)
            /\ Len(res) <= (IF qargs.limit < 0 THEN 0 ELSE qargs.limit)
            /\ (qargs.limit >= 0 /\ qargs.offset >= 0) =>
                    Len(res) = Min(qargs.limit, rest)

\* The comma-separated parts of a text.
RECURSIVE SplitComma(_)
SplitComma(text) ==
    IF FirstAt(text, <<",">>) = 0 THEN <<text>>
    ELSE <<SubSeq(text, 1, FirstAt(text, <<",">>) - 1)>>
            \o SplitComma(SubSeq(text, FirstAt(text, <<",">>) + 1, Len(text)))

\* The hostname of a match: what follows its scheme.
HostOfMatch(u) == SubSeq(u, SchemeEnd(u, 1), Len(u))

MatchedHosts(text) == {HostOfMatch(FindAll(text)[k]) : k \in 1..Len(FindAll(text))}

\* C20: domains_found is absent exactly when the body holds no URL match;
\* otherwise it is a non-empty comma-joined list whose parts are the matched
\* hostnames, each exactly once.
C20_DomainsFoundDeduplicated ==
    dresult.done =>
        /\ dresult.value = Null <=> FindAll(dbody) = <<>>
        /\ dresult.value # Null =>
            LET parts == SplitComma(dresult.value)
            IN  /\ dresult.value # <<>>
                /\ Range(parts) = MatchedHosts(dbody)
                /\ \A j, k \in 1..Len(parts) : j # k => parts[j] # parts[k]
        /\ dbody = ExampleBody =>
            Range(SplitComma(dresult.value))
                = {<<"e", "x", "a", "m", "p", "l", "e", ".", "c", "o", "m">>,
                   <<"s", "u", "b", ".", "e", "x", "a", "m", "p", "l", "e", ".", "o", "r", "g">>}

\* C20 witness: a body with three matches, one hostname twice, has been
\* turned into a list of the two hostnames.
C20_Witness ==
    /\ dresult.done
    /\ Len(FindAll(dbody)) = 3
    /\ Len(SplitComma(dresult.value)) = 2

====
